---- MODULE Spec2Model ----
(***************************************************************************)
(* Event distribution of ricq: the QEvent envelope, the Handler trait with *)
(* its default dispatch, DefaultHandler, and the four tokio sink adapters  *)
(* (src/client/handler/mod.rs).                                            *)
(*                                                                         *)
(* One behaviour exercises one Handler implementation (`kind`), chosen by  *)
(* Init.  Producers are tasks that call handle and await it; consumers     *)
(* are the receiving ends of the tokio channels.                           *)
(***************************************************************************)
EXTENDS Bags, FiniteSets, Integers, Sequences, TLC

(* ------------------------------ bounds -------------------------------- *)

\* handle calls made in one behaviour
MaxCalls == 3
\* capacity given to tokio::sync::mpsc::channel
Cap == 1
\* envelopes retained by the tokio::sync::broadcast ring
BCap == 2

(* ---------------------------- the envelope ---------------------------- *)

Unit == [unit |-> TRUE]

I64Values == {[uin |-> 100], [uin |-> 200]}
GroupMessageEvents ==
    {[group_code |-> 123456, elements |-> "hi"], [group_code |-> 654321, elements |-> "yo"]}
PrivateMessageEvents == {[from_uin |-> 100, elements |-> "hi"]}
GroupRequestEvents == {[group_code |-> 123456, req_uin |-> 200, message |-> "join"]}
FriendRequestEvents == {[req_uin |-> 200, message |-> "add"]}
NewMemberEvents == {[group_code |-> 123456, member_uin |-> 200]}
GroupMuteEvents == {[group_code |-> 123456, target_uin |-> 200]}
FriendMessageRecallEvents == {[friend_uin |-> 200, msg_seq |-> 7]}
NewFriendEvents == {[friend_uin |-> 200]}

Ev(tag, payloads) == {[tag |-> tag, payload |-> x] : x \in payloads}

QEvent ==
    Ev("TcpConnect", {Unit}) \cup Ev("TcpDisconnect", {Unit})
      \cup Ev("LoginEvent", I64Values)
      \cup Ev("GroupMessage", GroupMessageEvents)
      \cup Ev("SelfGroupMessage", GroupMessageEvents)
      \cup Ev("PrivateMessage", PrivateMessageEvents)
      \cup Ev("GroupRequest", GroupRequestEvents)
      \cup Ev("FriendRequest", FriendRequestEvents)
      \cup Ev("NewMember", NewMemberEvents)
      \cup Ev("GroupMute", GroupMuteEvents)
      \cup Ev("FriendMessageRecall", FriendMessageRecallEvents)
      \cup Ev("NewFriend", NewFriendEvents)

Tags == {e.tag : e \in QEvent}

(* ------------------------- the Handler trait -------------------------- *)

Methods ==
    {"handle_login_event", "handle_tcp_connect_event", "handle_tcp_disconnect_event",
     "handle_group_message", "handle_self_group_message", "handle_private_message",
     "handle_group_request", "handle_friend_request", "handle_new_member",
     "handle_group_mute", "handle_friend_message_recall", "handle_new_friend"}

\* a MethodOf whose last arm calls the disconnect method
MethodOfDisconnectArm(msg) ==
    CASE msg.tag = "LoginEvent" -> "handle_login_event"
      [] msg.tag = "GroupMessage" -> "handle_group_message"
      [] msg.tag = "SelfGroupMessage" -> "handle_self_group_message"
      [] msg.tag = "PrivateMessage" -> "handle_private_message"
      [] msg.tag = "GroupRequest" -> "handle_group_request"
      [] msg.tag = "FriendRequest" -> "handle_friend_request"
      [] msg.tag = "NewMember" -> "handle_new_member"
      [] msg.tag = "GroupMute" -> "handle_group_mute"
      [] msg.tag = "NewFriend" -> "handle_new_friend"
      [] msg.tag = "FriendMessageRecall" -> "handle_friend_message_recall"
      [] msg.tag = "TcpConnect" -> "handle_tcp_connect_event"
      [] msg.tag = "TcpDisconnect" -> "handle_tcp_disconnect_event"

\* a MethodOf whose SelfGroupMessage arm calls the group-message method
MethodOfSelfAsGroup(msg) ==
    CASE msg.tag = "LoginEvent" -> "handle_login_event"
      [] msg.tag = "GroupMessage" -> "handle_group_message"
      [] msg.tag = "SelfGroupMessage" -> "handle_group_message"
      [] msg.tag = "PrivateMessage" -> "handle_private_message"
      [] msg.tag = "GroupRequest" -> "handle_group_request"
      [] msg.tag = "FriendRequest" -> "handle_friend_request"
      [] msg.tag = "NewMember" -> "handle_new_member"
      [] msg.tag = "GroupMute" -> "handle_group_mute"
      [] msg.tag = "NewFriend" -> "handle_new_friend"
      [] msg.tag = "FriendMessageRecall" -> "handle_friend_message_recall"
      [] msg.tag = "TcpConnect" -> "handle_tcp_connect_event"
      [] msg.tag = "TcpDisconnect" -> "handle_tcp_connect_event"

\* the arm of the match in Handler::handle that msg selects
MethodOf(msg) ==
    CASE msg.tag = "LoginEvent" -> "handle_login_event"
      [] msg.tag = "GroupMessage" -> "handle_group_message"
      [] msg.tag = "SelfGroupMessage" -> "handle_self_group_message"
      [] msg.tag = "PrivateMessage" -> "handle_private_message"
      [] msg.tag = "GroupRequest" -> "handle_group_request"
      [] msg.tag = "FriendRequest" -> "handle_friend_request"
      [] msg.tag = "NewMember" -> "handle_new_member"
      [] msg.tag = "GroupMute" -> "handle_group_mute"
      [] msg.tag = "NewFriend" -> "handle_new_friend"
      [] msg.tag = "FriendMessageRecall" -> "handle_friend_message_recall"
      [] msg.tag = "TcpConnect" -> "handle_tcp_connect_event"
      [] msg.tag = "TcpDisconnect" -> "handle_tcp_connect_event"

\* the per-kind calls one run of the default Handler::handle makes, in order
DefaultHandle(msg) == <<[method |-> MethodOf(msg), arg |-> msg.payload]>>


(* --------------------------- DefaultHandler --------------------------- *)

\* `{}` applied to an integer field: its decimal text
Display(n) == ToString(n)

\* `{:?}` applied to the envelope: the derived structured rendering of the whole value
Debug(e) == e

\* a rendering whose group-message arm leaves the group code out
RenderWithoutGroupCode(e) ==
    CASE e.tag = "GroupMessage" ->
           [fmt |-> "MESSAGE (GROUP={}): {}", args |-> <<e.payload.elements>>]
      [] e.tag = "PrivateMessage" ->
           [fmt |-> "MESSAGE (FRIEND={}): {}",
            args |-> <<Display(e.payload.from_uin), e.payload.elements>>]
      [] e.tag = "GroupRequest" ->
           [fmt |-> "REQUEST (GROUP={}, UIN={}): {}",
            args |-> <<Display(e.payload.group_code), Display(e.payload.req_uin),
                       e.payload.message>>]
      [] e.tag = "FriendRequest" ->
           [fmt |-> "REQUEST (UIN={}): {}",
            args |-> <<Display(e.payload.req_uin), e.payload.message>>]
      [] OTHER -> [fmt |-> "{:?}", args |-> <<Debug(e)>>]

\* the line DefaultHandler::handle prints for e: the format string and the text
\* that fills its placeholders
Render(e) ==
    CASE e.tag = "GroupMessage" ->
           [fmt |-> "MESSAGE (GROUP={}): {}",
            args |-> <<Display(e.payload.group_code), e.payload.elements>>]
      [] e.tag = "PrivateMessage" ->
           [fmt |-> "MESSAGE (FRIEND={}): {}",
            args |-> <<Display(e.payload.from_uin), e.payload.elements>>]
      [] e.tag = "GroupRequest" ->
           [fmt |-> "REQUEST (GROUP={}, UIN={}): {}",
            args |-> <<Display(e.payload.group_code), Display(e.payload.req_uin),
                       e.payload.message>>]
      [] e.tag = "FriendRequest" ->
           [fmt |-> "REQUEST (UIN={}): {}",
            args |-> <<Display(e.payload.req_uin), e.payload.message>>]
      [] OTHER -> [fmt |-> "{:?}", args |-> <<Debug(e)>>]

(* ------------------------------- state -------------------------------- *)

Producers == {"p1", "p2"}
Receivers == {"r1", "r2"}

Kinds == {"default_dispatch", "DefaultHandler", "broadcast", "mpsc", "unbounded", "watch"}
SinkKinds == {"broadcast", "mpsc", "unbounded", "watch"}
QueueKinds == {"mpsc", "unbounded"}

\* the pairs of envelopes the protocol layer hands to a sink in one behaviour
Feeds ==
    {{[tag |-> "TcpConnect", payload |-> Unit], [tag |-> "TcpDisconnect", payload |-> Unit]},
     Ev("LoginEvent", I64Values),
     Ev("GroupMessage", GroupMessageEvents),
     {[tag |-> "GroupMessage", payload |-> [group_code |-> 123456, elements |-> "hi"]],
      [tag |-> "SelfGroupMessage", payload |-> [group_code |-> 123456, elements |-> "hi"]]},
     Ev("PrivateMessage", PrivateMessageEvents) \cup Ev("GroupRequest", GroupRequestEvents),
     Ev("FriendRequest", FriendRequestEvents) \cup Ev("NewMember", NewMemberEvents),
     Ev("GroupMute", GroupMuteEvents) \cup Ev("FriendMessageRecall", FriendMessageRecallEvents),
     Ev("NewFriend", NewFriendEvents) \cup Ev("SelfGroupMessage", {[group_code |-> 654321, elements |-> "yo"]})}

VARIABLES
    kind,        \* the Handler implementation this behaviour calls
    feed,        \* the envelopes the protocol layer produces
    overrides,   \* per-kind methods the user's Handler overrides (default dispatch)
    pc,          \* producer -> "idle" | "in_override" | "waiting" | "granted" | "panicked"
    cur,         \* producer -> <<>> or <<msg>>, the envelope of a suspended handle call
    calls,       \* number of handle calls made
    dispatched,  \* bag of envelopes passed to the default Handler::handle
    invoked,     \* bag of [method, arg]: the per-kind methods invoked
    effects,     \* bag of [method, arg]: what the user's overrides did
    lastCall,    \* <<>> or <<[msg, calls]>>: the latest handle call and its per-kind calls
    printed,     \* number of lines DefaultHandler printed
    lastLine,    \* <<>> or <<line>>: the latest line DefaultHandler printed
    sent,        \* sink: [p, e] of every handle call, in call order
    completed,   \* sink: [p, e] of every handle call that returned, in return order
    queue,       \* mpsc/unbounded: the channel's buffered values
    recvd,       \* mpsc/unbounded: what the consumer received, in order
    rx,          \* mpsc/unbounded: "open" | "closed" | "dropped"
    permits,     \* mpsc: free permits of the channel's semaphore
    waiters,     \* mpsc: producers queued on the semaphore, FIFO
    subs,        \* broadcast/watch: receiver -> [st, next, got]
    cell         \* watch: the value the channel holds

vars ==
    <<kind, feed, overrides, pc, cur, calls, dispatched, invoked, effects, lastCall,
      printed, lastLine, sent, completed, queue, recvd, rx, permits, waiters, subs, cell>>

configVars == <<kind, feed, overrides>>
dispatchVars == <<dispatched, invoked, effects, lastCall>>
printVars == <<printed, lastLine>>
queueVars == <<queue, recvd, rx, permits, waiters>>

\* a broadcast/watch receiver: st its life, since the position it subscribed at,
\* next the position it reads next, got what it received, lost what Lagged skipped
NoSub == [st |-> "none", since |-> 0, next |-> 0, got |-> <<>>, lost |-> 0]
GoneSub == [st |-> "dropped", since |-> 0, next |-> 0, got |-> <<>>, lost |-> 0]

Init ==
    /\ kind \in Kinds
    /\ feed \in (IF kind \in SinkKinds THEN Feeds ELSE {QEvent})
    /\ overrides \in (IF kind = "default_dispatch"
                        THEN {{}} \cup {{m} : m \in Methods} ELSE {{}})
    /\ pc = [p \in Producers |-> "idle"]
    /\ cur = [p \in Producers |-> <<>>]
    /\ calls = 0
    /\ dispatched = EmptyBag
    /\ invoked = EmptyBag
    /\ effects = EmptyBag
    /\ lastCall = <<>>
    /\ printed = 0
    /\ lastLine = <<>>
    /\ sent = <<>>
    /\ completed = <<>>
    /\ queue = <<>>
    /\ recvd = <<>>
    /\ rx = "open"
    /\ permits = Cap
    /\ waiters = <<>>
    /\ subs = [r \in Receivers |-> IF r = "r1" THEN [NoSub EXCEPT !.st = "live"] ELSE NoSub]
    /\ cell \in (IF kind = "watch" THEN feed ELSE {Unit})

(* --------------------- default dispatch (the trait) ------------------- *)

SeqToBag(s) == LET F[i \in 0..Len(s)] ==
                     IF i = 0 THEN EmptyBag ELSE F[i - 1] (+) SetToBag({s[i]})
               IN F[Len(s)]

SelectOverridden(s) == SelectSeq(s, LAMBDA c : c.method \in overrides)

\* where the call stands once the selected per-kind method has been invoked: a
\* default method is a no-op that returns at once, an override is the
\* implementer's code and may return at once or suspend
AfterInvoke(msg) ==
    IF SelectOverridden(DefaultHandle(msg)) # <<>> THEN {"idle", "in_override"} ELSE {"idle"}

\* a dispatch that keeps the envelope in a slot shared by all calls and matches
\* on the slot's previous content
HandleDefaultSharedSlot(p, msg) ==
    /\ kind = "default_dispatch"
    /\ pc[p] = "idle"
    /\ calls < MaxCalls
    /\ calls' = calls + 1
    /\ dispatched' = dispatched (+) SetToBag({msg})
    /\ LET slot == IF lastCall = <<>> THEN msg ELSE lastCall[1].msg
       IN /\ invoked' = invoked (+) SeqToBag(DefaultHandle(slot))
          /\ effects' = effects (+) SeqToBag(SelectOverridden(DefaultHandle(slot)))
          /\ lastCall' = <<[msg |-> msg, calls |-> DefaultHandle(slot)]>>
    /\ UNCHANGED <<configVars, pc, cur, printVars, sent, completed, queueVars, subs, cell>>

\* Handler::handle as the trait defines it, on a Handler that overrides
\* `overrides`, up to the return or the suspension of the per-kind method
HandleDefault(p, msg) ==
    /\ kind = "default_dispatch"
    /\ pc[p] = "idle"
    /\ calls < MaxCalls
    /\ calls' = calls + 1
    /\ dispatched' = dispatched (+) SetToBag({msg})
    /\ invoked' = invoked (+) SeqToBag(DefaultHandle(msg))
    /\ effects' = effects (+) SeqToBag(SelectOverridden(DefaultHandle(msg)))
    /\ lastCall' = <<[msg |-> msg, calls |-> DefaultHandle(msg)]>>
    /\ \E next \in AfterInvoke(msg) :
         /\ pc' = [pc EXCEPT ![p] = next]
         /\ cur' = [cur EXCEPT ![p] = IF next = "idle" THEN <<>> ELSE <<msg>>]
    /\ UNCHANGED <<configVars, printVars, sent, completed, queueVars, subs, cell>>

\* Handler::handle resumed: the awaited override returns and handle with it
ReturnDefault(p) ==
    /\ kind = "default_dispatch"
    /\ pc[p] = "in_override"
    /\ pc' = [pc EXCEPT ![p] = "idle"]
    /\ cur' = [cur EXCEPT ![p] = <<>>]
    /\ UNCHANGED <<configVars, calls, dispatchVars, printVars, sent, completed, queueVars,
                   subs, cell>>

\* a DefaultHandler that leaves handle to the trait and so dispatches per kind
HandleDefaultHandlerViaDispatch(p, e) ==
    /\ kind = "DefaultHandler"
    /\ pc[p] = "idle"
    /\ calls < MaxCalls
    /\ calls' = calls + 1
    /\ dispatched' = dispatched (+) SetToBag({e})
    /\ invoked' = invoked (+) SeqToBag(DefaultHandle(e))
    /\ lastCall' = <<[msg |-> e, calls |-> DefaultHandle(e)]>>
    /\ UNCHANGED <<configVars, pc, cur, effects, printVars, sent, completed, queueVars,
                   subs, cell>>

\* DefaultHandler::handle: its own match, one println! in every arm, no per-kind call
HandleDefaultHandler(p, e) ==
    /\ kind = "DefaultHandler"
    /\ pc[p] = "idle"
    /\ calls < MaxCalls
    /\ calls' = calls + 1
    /\ printed' = printed + 1
    /\ lastLine' = <<Render(e)>>
    /\ lastCall' = <<[msg |-> e, calls |-> <<>>]>>
    /\ UNCHANGED <<configVars, pc, cur, dispatched, invoked, effects, sent, completed,
                   queueVars, subs, cell>>

(* ------------------------- the sink adapters -------------------------- *)

LiveSubs == {r \in Receivers : subs[r].st = "live"}

\* the caller of handle unwinds: `.unwrap()` on an Err
Panic(p) ==
    /\ pc' = [pc EXCEPT ![p] = "panicked"]
    /\ cur' = [cur EXCEPT ![p] = <<>>]

\* every sink handle starts by taking the envelope from an idle producer
Call(p, msg) ==
    /\ pc[p] = "idle"
    /\ calls < MaxCalls
    /\ calls' = calls + 1
    /\ sent' = Append(sent, [p |-> p, e |-> msg])

\* a send that succeeds without any receiver
BroadcastSendOkAlways == TRUE

\* tokio broadcast::Sender::send: Err when no receiver is left
BroadcastSendOk == LiveSubs # {}

\* Handler::handle of BroadcastSender<QEvent>
HandleBroadcast(p, msg) ==
    /\ kind = "broadcast"
    /\ Call(p, msg)
    /\ IF BroadcastSendOk
         THEN /\ completed' = Append(completed, [p |-> p, e |-> msg])
              /\ UNCHANGED <<pc, cur>>
         ELSE /\ Panic(p)
              /\ UNCHANGED completed
    /\ UNCHANGED <<configVars, dispatchVars, printVars, queueVars, subs, cell>>

\* tokio watch::Sender::send: Err when no receiver is left
WatchSendOk == LiveSubs # {}

\* a store that keeps the value already in the cell
WatchStoreKeepOld(old, msg) == old

\* what watch::Sender::send leaves in the cell
WatchStore(old, msg) == msg

\* Handler::handle of WatchSender<QEvent>
HandleWatch(p, msg) ==
    /\ kind = "watch"
    /\ Call(p, msg)
    /\ IF WatchSendOk
         THEN /\ cell' = WatchStore(cell, msg)
              /\ completed' = Append(completed, [p |-> p, e |-> msg])
              /\ UNCHANGED <<pc, cur>>
         ELSE /\ Panic(p)
              /\ UNCHANGED <<cell, completed>>
    /\ UNCHANGED <<configVars, dispatchVars, printVars, queueVars, subs>>

\* every queue adapter treated as a bounded channel
BoundedEveryQueue(k) == k \in QueueKinds

\* no queue adapter treated as a bounded channel
BoundedNever(k) == FALSE

\* whether the adapter's channel has a fixed capacity, so that its send is awaited
Bounded(k) == k = "mpsc"

\* a channel that hands out its newest value first
EnqueueFront(q, x) == <<x>> \o q

\* a send that buffers its value twice
EnqueueTwice(q, x) == Append(Append(q, x), x)

\* a send that forwards a disconnect marker as a connect marker, as the default
\* dispatch treats it
EnqueueRetagged(q, x) ==
    Append(q, IF x.e.tag = "TcpDisconnect" THEN [x EXCEPT !.e.tag = "TcpConnect"] ELSE x)

\* the channel's buffer after a successful send
Enqueue(q, x) == Append(q, x)

\* mpsc Sender::send / UnboundedSender::send fail once the receiver is closed or dropped
QueueSendErr == rx # "open"

\* a first poll that never waits for a permit
QueueFirstPollNoWait(k) == IF QueueSendErr THEN "err" ELSE "ready"

\* the first poll of the send: Err on a closed channel; on a bounded channel
\* Pending (queued on the semaphore) when no permit is free; Ready otherwise
QueueFirstPoll(k) ==
    IF QueueSendErr THEN "err"
    ELSE IF Bounded(k) /\ permits = 0 THEN "pending" ELSE "ready"

\* `self.send(msg)` on a queue sender, up to its first suspension, and the unwrap
QueueSend(p, msg) ==
    /\ Call(p, msg)
    /\ CASE QueueFirstPoll(kind) = "err" ->
              /\ Panic(p)
              /\ UNCHANGED <<queue, completed, permits, waiters>>
         [] QueueFirstPoll(kind) = "ready" ->
              /\ permits' = IF Bounded(kind) THEN permits - 1 ELSE permits
              /\ queue' = Enqueue(queue, [p |-> p, e |-> msg])
              /\ completed' = Append(completed, [p |-> p, e |-> msg])
              /\ UNCHANGED <<pc, cur, waiters>>
         [] QueueFirstPoll(kind) = "pending" ->
              /\ pc' = [pc EXCEPT ![p] = "waiting"]
              /\ cur' = [cur EXCEPT ![p] = <<msg>>]
              /\ waiters' = Append(waiters, p)
              /\ UNCHANGED <<queue, completed, permits>>
    /\ UNCHANGED <<configVars, dispatchVars, printVars, recvd, rx, subs, cell>>

\* Handler::handle of UnboundedSender<QEvent>
HandleUnbounded(p, msg) ==
    /\ kind = "unbounded"
    /\ QueueSend(p, msg)

\* Handler::handle of MpscSender<QEvent>, up to its first suspension
HandleMpsc(p, msg) ==
    /\ kind = "mpsc"
    /\ QueueSend(p, msg)

\* a later poll that a closed channel does not fail
QueueNextPollNoWake(p) == IF pc[p] = "granted" THEN "ready" ELSE "pending"

\* a later poll of the suspended send: Err on a closed channel, Ready once the
\* semaphore has assigned this waiter a permit
QueueNextPoll(p) ==
    IF QueueSendErr THEN "err" ELSE IF pc[p] = "granted" THEN "ready" ELSE "pending"

\* Handler::handle of MpscSender<QEvent>, resumed after it was woken
ResumeMpsc(p) ==
    /\ Bounded(kind)
    /\ pc[p] \in {"waiting", "granted"}
    /\ QueueNextPoll(p) # "pending"
    /\ IF QueueNextPoll(p) = "ready"
         THEN /\ queue' = Enqueue(queue, [p |-> p, e |-> cur[p][1]])
              /\ completed' = Append(completed, [p |-> p, e |-> cur[p][1]])
              /\ pc' = [pc EXCEPT ![p] = "idle"]
              /\ cur' = [cur EXCEPT ![p] = <<>>]
         ELSE /\ Panic(p)
              /\ UNCHANGED <<queue, completed>>
    /\ UNCHANGED <<configVars, calls, dispatchVars, printVars, sent, recvd, rx, permits,
                   waiters, subs, cell>>

(* --------------------------- the consumers ---------------------------- *)

\* a receive that returns the freed permit to the pool and wakes no waiter
RecvQueueNoHandOff ==
    /\ kind \in QueueKinds
    /\ rx # "dropped"
    /\ queue # <<>>
    /\ recvd' = Append(recvd, Head(queue))
    /\ queue' = Tail(queue)
    /\ permits' = IF Bounded(kind) THEN permits + 1 ELSE permits
    /\ UNCHANGED <<configVars, pc, cur, calls, dispatchVars, printVars, sent, completed, rx,
                   waiters, subs, cell>>

\* mpsc Receiver::recv / UnboundedReceiver::recv taking a buffered value; the
\* bounded channel hands the freed permit to the first waiter, if any
RecvQueue ==
    /\ kind \in QueueKinds
    /\ rx # "dropped"
    /\ queue # <<>>
    /\ recvd' = Append(recvd, Head(queue))
    /\ queue' = Tail(queue)
    /\ IF Bounded(kind)
         THEN IF waiters # <<>>
                THEN /\ pc' = [pc EXCEPT ![Head(waiters)] = "granted"]
                     /\ waiters' = Tail(waiters)
                     /\ UNCHANGED permits
                ELSE /\ permits' = permits + 1
                     /\ UNCHANGED <<pc, waiters>>
         ELSE UNCHANGED <<pc, permits, waiters>>
    /\ UNCHANGED <<configVars, cur, calls, dispatchVars, printVars, sent, completed, rx,
                   subs, cell>>

\* Receiver::close: no further send succeeds, buffered values stay receivable
CloseQueue ==
    /\ kind \in QueueKinds
    /\ rx = "open"
    /\ rx' = "closed"
    /\ waiters' = <<>>
    /\ UNCHANGED <<configVars, pc, cur, calls, dispatchVars, printVars, sent, completed,
                   queue, recvd, permits, subs, cell>>

\* the receiving half is dropped: the channel closes and its buffer is discarded
DropQueue ==
    /\ kind \in QueueKinds
    /\ rx # "dropped"
    /\ rx' = "dropped"
    /\ queue' = <<>>
    /\ waiters' = <<>>
    /\ UNCHANGED <<configVars, pc, cur, calls, dispatchVars, printVars, sent, completed,
                   recvd, permits, subs, cell>>

\* Sender::subscribe of the broadcast and watch channels: a new receiver that
\* sees only what is sent from now on
Subscribe(r) ==
    /\ kind \in {"broadcast", "watch"}
    /\ subs[r].st = "none"
    /\ subs' = [subs EXCEPT ![r] = [st |-> "live", since |-> Len(completed),
                                    next |-> Len(completed), got |-> <<>>, lost |-> 0]]
    /\ UNCHANGED <<configVars, pc, cur, calls, dispatchVars, printVars, sent, completed,
                   queueVars, cell>>

\* a broadcast or watch receiver is dropped
DropSub(r) ==
    /\ kind \in {"broadcast", "watch"}
    /\ subs[r].st = "live"
    /\ subs' = [subs EXCEPT ![r] = GoneSub]
    /\ UNCHANGED <<configVars, pc, cur, calls, dispatchVars, printVars, sent, completed,
                   queueVars, cell>>

\* a ring that holds one value fewer
RingStartShort == IF Len(completed) > BCap - 1 THEN Len(completed) - (BCap - 1) ELSE 0

\* position of the oldest value the broadcast ring still holds
RingStart == IF Len(completed) > BCap THEN Len(completed) - BCap ELSE 0

\* a receiver that is handed the newest value whatever its position
BroadcastValueNewest(r) == completed[Len(completed)].e

\* the value broadcast Receiver::recv returns to r: a clone of the value at r's position
BroadcastValue(r) == completed[subs[r].next + 1].e

\* broadcast Receiver::recv: the next value, or Lagged when the ring has
\* overwritten it, which moves the receiver to the oldest retained value
RecvBroadcast(r) ==
    /\ kind = "broadcast"
    /\ subs[r].st = "live"
    /\ subs[r].next < Len(completed)
    /\ IF subs[r].next < RingStart
         THEN subs' = [subs EXCEPT ![r].next = RingStart,
                                   ![r].lost = @ + (RingStart - subs[r].next)]
         ELSE subs' = [subs EXCEPT ![r].next = @ + 1,
                                   ![r].got = Append(@, BroadcastValue(r))]
    /\ UNCHANGED <<configVars, pc, cur, calls, dispatchVars, printVars, sent, completed,
                   queueVars, cell>>

\* watch Receiver::changed followed by borrow_and_update: the value now in the cell
ObserveWatch(r) ==
    /\ kind = "watch"
    /\ subs[r].st = "live"
    /\ subs[r].next < Len(completed)
    /\ subs' = [subs EXCEPT ![r].next = Len(completed), ![r].got = Append(@, cell)]
    /\ UNCHANGED <<configVars, pc, cur, calls, dispatchVars, printVars, sent, completed,
                   queueVars, cell>>

Next ==
    \/ \E p \in Producers, e \in feed : HandleDefault(p, e)
    \/ \E p \in Producers : ReturnDefault(p)
    \/ \E p \in Producers, e \in feed : HandleDefaultHandler(p, e)
    \/ \E p \in Producers, e \in feed : HandleBroadcast(p, e)
    \/ \E p \in Producers, e \in feed : HandleMpsc(p, e)
    \/ \E p \in Producers : ResumeMpsc(p)
    \/ \E p \in Producers, e \in feed : HandleUnbounded(p, e)
    \/ \E p \in Producers, e \in feed : HandleWatch(p, e)
    \/ RecvQueue
    \/ CloseQueue
    \/ DropQueue
    \/ \E r \in Receivers : Subscribe(r)
    \/ \E r \in Receivers : DropSub(r)
    \/ \E r \in Receivers : RecvBroadcast(r)
    \/ \E r \in Receivers : ObserveWatch(r)

Spec == Init /\ [][Next]_vars

(* the bounded queue under a runtime that polls every woken task and a *)
(* consumer that takes a buffered value whenever one stays available   *)

MpscInit == Init /\ kind = "mpsc"

MpscNext ==
    \/ \E p \in Producers, e \in feed : HandleMpsc(p, e)
    \/ \E p \in Producers : ResumeMpsc(p)
    \/ RecvQueue
    \/ CloseQueue
    \/ DropQueue

MpscFairSpec ==
    /\ MpscInit
    /\ [][MpscNext]_vars
    /\ WF_vars(RecvQueue)
    /\ \A p \in Producers : WF_vars(ResumeMpsc(p))


(* ------------------------------ claims -------------------------------- *)

\* the per-kind method named after each variant
NamedAfter(tag) ==
    CASE tag = "LoginEvent" -> "handle_login_event"
      [] tag = "GroupMessage" -> "handle_group_message"
      [] tag = "SelfGroupMessage" -> "handle_self_group_message"
      [] tag = "PrivateMessage" -> "handle_private_message"
      [] tag = "GroupRequest" -> "handle_group_request"
      [] tag = "FriendRequest" -> "handle_friend_request"
      [] tag = "NewMember" -> "handle_new_member"
      [] tag = "GroupMute" -> "handle_group_mute"
      [] tag = "FriendMessageRecall" -> "handle_friend_message_recall"
      [] tag = "NewFriend" -> "handle_new_friend"
      [] tag = "TcpConnect" -> "handle_tcp_connect_event"
      [] tag = "TcpDisconnect" -> "handle_tcp_disconnect_event"

\* number of invocations of method m so far
InvokedCount(m) ==
    BagCardinality([x \in {y \in BagToSet(invoked) : y.method = m} |-> invoked[x]])

\* number of dispatched envelopes with a tag in ts
DispatchedCount(ts) ==
    BagCardinality([x \in {y \in BagToSet(dispatched) : y.tag \in ts} |-> dispatched[x]])

\* C1: one call of the default Handler::handle invokes exactly one per-kind
\* method, with the variant's payload as its argument, and for every variant but
\* TcpDisconnect it is the method named after the variant.
C1_ExactlyOneNamedMethod ==
    kind = "default_dispatch" =>
      /\ BagCardinality(invoked) = calls
      /\ lastCall # <<>> =>
           /\ Len(lastCall[1].calls) = 1
           /\ lastCall[1].calls[1].arg = lastCall[1].msg.payload
           /\ lastCall[1].msg.tag # "TcpDisconnect" =>
                lastCall[1].calls[1].method = NamedAfter(lastCall[1].msg.tag)

C1_Witness ==
    /\ kind = "default_dispatch"
    /\ calls = MaxCalls
    /\ lastCall # <<>>
    /\ lastCall[1].msg = [tag |-> "SelfGroupMessage",
                          payload |-> [group_code |-> 654321, elements |-> "yo"]]
    /\ lastCall[1].calls = <<[method |-> "handle_self_group_message",
                              arg |-> [group_code |-> 654321, elements |-> "yo"]]>>

\* C2: a TcpDisconnect envelope is dispatched to handle_tcp_connect_event; so
\* handle_tcp_disconnect_event is never invoked, and handle_tcp_connect_event has
\* been invoked once per TcpConnect or TcpDisconnect envelope dispatched.
C2_DisconnectGoesToConnect ==
    kind = "default_dispatch" =>
      /\ InvokedCount("handle_tcp_disconnect_event") = 0
      /\ InvokedCount("handle_tcp_connect_event")
           = DispatchedCount({"TcpConnect", "TcpDisconnect"})
      /\ (lastCall # <<>> /\ lastCall[1].msg.tag = "TcpDisconnect") =>
           /\ \E i \in DOMAIN lastCall[1].calls :
                lastCall[1].calls[i].method = "handle_tcp_connect_event"
           /\ \A i \in DOMAIN lastCall[1].calls :
                lastCall[1].calls[i].method # "handle_tcp_disconnect_event"

C2_Witness ==
    /\ kind = "default_dispatch"
    /\ DispatchedCount({"TcpDisconnect"}) = 2
    /\ DispatchedCount({"TcpConnect"}) = 1
    /\ InvokedCount("handle_tcp_connect_event") = 3

\* C3: on a Handler that overrides exactly one per-kind method, dispatching an
\* envelope of any other kind invokes no override and leaves the handler's
\* observable state unchanged: the override has acted only for envelopes of its
\* own kind.
C3_OtherKindsReachNoOverride ==
    (kind = "default_dispatch" /\ Cardinality(overrides) = 1) =>
      /\ BagCardinality(effects)
           <= DispatchedCount({t \in Tags : NamedAfter(t) \in overrides})
      /\ (lastCall # <<>> /\ NamedAfter(lastCall[1].msg.tag) \notin overrides) =>
           \A i \in DOMAIN lastCall[1].calls : lastCall[1].calls[i].method \notin overrides


\* whether no receiving end of the sink's channel exists any more
NoReceiver ==
    CASE kind \in QueueKinds -> rx = "dropped"
      [] kind \in {"broadcast", "watch"} -> LiveSubs = {}
      [] OTHER -> FALSE

\* this step is producer p calling handle on a sink
CallStep(p) ==
    /\ calls' = calls + 1
    /\ Len(sent') = Len(sent) + 1
    /\ sent'[Len(sent')].p = p

\* this step aborts producer p's handle call
PanicStep(p) == pc[p] # "panicked" /\ pc'[p] = "panicked"

\* a handle call made when no receiver exists aborts and delivers nothing
AbortsWithoutReceiver ==
    \A p \in Producers :
      (kind \in SinkKinds /\ CallStep(p) /\ NoReceiver) =>
        /\ pc'[p] = "panicked"
        /\ completed' = completed
        /\ queue' = queue
        /\ cell' = cell

\* C4 as stated: without a receiver every sink adapter's handle aborts, and while
\* a receiver is alive handle on the multicast, unbounded-queue and latest-value
\* adapters never aborts.
C4_AbortsOnlyWithoutReceiver ==
    [][/\ AbortsWithoutReceiver
       /\ \A p \in Producers :
            (kind \in {"broadcast", "unbounded", "watch"} /\ PanicStep(p)) => NoReceiver]_vars

\* C4 amended: without a receiver every sink adapter's handle aborts; handle on
\* the multicast, unbounded-queue and latest-value adapters aborts only then,
\* or, on the unbounded queue, when the living receiver has closed the channel.
C4_AbortsOnlyWithoutReceiverOrClosed ==
    [][/\ AbortsWithoutReceiver
       /\ \A p \in Producers :
            (kind \in {"broadcast", "unbounded", "watch"} /\ PanicStep(p)) =>
              NoReceiver \/ (kind = "unbounded" /\ rx = "closed")]_vars

C4_Witness ==
    /\ kind = "broadcast"
    /\ LiveSubs = {}
    /\ Len(completed) = 1
    /\ Len(sent) = 2
    /\ pc[sent[2].p] = "panicked"

\* C5: a handle call on the bounded queue made while the queue is full and the
\* receiver is open is suspended without delivering; a suspended call leaves
\* suspension only through a receive that frees its slot (or by failing on a
\* closed channel), and completes into a queue with a free slot; so completed
\* calls never exceed the capacity plus the receives performed.
C5_SuspendsUntilSlotFreed ==
    /\ [](kind = "mpsc" => Len(completed) <= Cap + Len(recvd))
    /\ [][kind = "mpsc" =>
            \A p \in Producers :
              /\ (CallStep(p) /\ Len(queue) = Cap /\ rx = "open") =>
                   /\ pc'[p] = "waiting"
                   /\ cur'[p] = <<sent'[Len(sent')].e>>
                   /\ completed' = completed
                   /\ queue' = queue
              /\ (pc[p] = "waiting" /\ pc'[p] # "waiting") =>
                   \/ pc'[p] = "granted" /\ Len(recvd') = Len(recvd) + 1
                   \/ pc'[p] = "panicked" /\ rx # "open"
              /\ (pc[p] # "idle" /\ pc'[p] = "idle") =>
                   /\ pc[p] = "granted"
                   /\ Len(queue) < Cap
                   /\ queue' = Append(queue, [p |-> p, e |-> cur[p][1]])]_vars

C5_Witness ==
    /\ kind = "mpsc"
    /\ rx = "open"
    /\ Len(recvd) = 1
    /\ Len(completed) = Cap + 1
    /\ Len(queue) = Cap
    /\ \E p \in Producers : pc[p] = "waiting"

RECURSIVE IsSubseq(_, _)
\* whether s is t with some elements left out
IsSubseq(s, t) ==
    IF s = <<>> THEN TRUE
    ELSE IF t = <<>> THEN FALSE
    ELSE IF Head(s) = Head(t) THEN IsSubseq(Tail(s), Tail(t))
    ELSE IsSubseq(s, Tail(t))

IsPrefix(s, t) == Len(s) <= Len(t) /\ s = SubSeq(t, 1, Len(s))

Envelopes(log) == [i \in DOMAIN log |-> log[i].e]

SingleProducer == Cardinality({sent[i].p : i \in DOMAIN sent}) <= 1

\* C6: with a single producer awaiting each handle call before the next, the
\* queue sinks deliver a prefix of the sent sequence and each multicast
\* subscriber receives the sent envelopes in send order.
C6_SingleProducerOrder ==
    SingleProducer =>
      /\ kind \in QueueKinds =>
           /\ IsPrefix(recvd, sent)
           /\ rx # "dropped" => IsPrefix(recvd \o queue, sent)
      /\ kind = "broadcast" =>
           \A r \in LiveSubs : IsSubseq(subs[r].got, Envelopes(sent))

C6_Witness ==
    /\ kind = "mpsc"
    /\ SingleProducer
    /\ Len(recvd) = 3
    /\ recvd[1].e # recvd[2].e
    /\ recvd = sent

\* C7: what a multicast subscriber observes are copies of the envelopes passed
\* to handle, in the order sent; two subscribers live for the same sends that
\* lost nothing observe the same envelopes, position by position.
C7_BothObserveIdenticalCopies ==
    kind = "broadcast" =>
      /\ \A r \in LiveSubs :
           IsSubseq(subs[r].got,
                    SubSeq(Envelopes(completed), subs[r].since + 1, subs[r].next))
      /\ \A r1, r2 \in LiveSubs :
           (subs[r1].since = subs[r2].since /\ subs[r1].lost = 0 /\ subs[r2].lost = 0) =>
             \A i \in DOMAIN subs[r1].got \cap DOMAIN subs[r2].got :
               /\ subs[r1].got[i] = subs[r2].got[i]
               /\ subs[r1].got[i] = completed[subs[r1].since + i].e

C7_Witness ==
    /\ kind = "broadcast"
    /\ LiveSubs = Receivers
    /\ Len(completed) = 2
    /\ completed[1].e # completed[2].e
    /\ \A r \in Receivers : subs[r].got = Envelopes(completed)

\* C8 as stated: a live multicast subscriber receives every envelope sent since
\* it subscribed, however far behind it is.
C8_SubscriberNeverLoses ==
    kind = "broadcast" =>
      \A r \in LiveSubs :
        subs[r].got = SubSeq(Envelopes(completed), subs[r].since + 1, subs[r].next)

\* C8 amended: a live multicast subscriber receives every envelope sent since it
\* subscribed as long as it is never more than the channel's capacity behind the
\* sender; only a subscriber further behind loses envelopes, the oldest ones; the
\* sender never suspends, and fails only when no subscriber exists.
C8_SubscriberLosesOnlyWhenLagging ==
    /\ [](kind = "broadcast" =>
            /\ \A p \in Producers : pc[p] \in {"idle", "panicked"}
            /\ \A r \in LiveSubs :
                 /\ Len(subs[r].got) + subs[r].lost = subs[r].next - subs[r].since
                 /\ subs[r].got = SubSeq(Envelopes(completed),
                                         subs[r].next - Len(subs[r].got) + 1, subs[r].next)
                 /\ Len(completed) - subs[r].since <= BCap => subs[r].lost = 0)
    /\ [][kind = "broadcast" =>
            /\ \A p \in Producers : PanicStep(p) => LiveSubs = {}
            /\ \A r \in Receivers :
                 (subs[r].st = "live" /\ subs'[r].st = "live"
                    /\ subs'[r].lost > subs[r].lost) =>
                   Len(completed) - subs[r].next > BCap]_vars

C8_Witness ==
    /\ kind = "broadcast"
    /\ \E r \in LiveSubs : subs[r].lost = 1 /\ Len(subs[r].got) = BCap
    /\ \A p \in Producers : pc[p] = "idle"

\* C9: after completed handle calls the latest-value cell holds the envelope of
\* the most recent one; what an observer reads is the envelope of the latest
\* call completed before the read, so an overwritten envelope is never read.
C9_OnlyLatestObservable ==
    (kind = "watch" /\ completed # <<>>) =>
      /\ cell = completed[Len(completed)].e
      /\ \A r \in LiveSubs :
           /\ subs[r].got # <<>> =>
                subs[r].got[Len(subs[r].got)] = completed[subs[r].next].e
           /\ IsSubseq(subs[r].got,
                       SubSeq(Envelopes(completed), subs[r].since + 1, subs[r].next))

C9_Witness ==
    /\ kind = "watch"
    /\ Envelopes(completed) = <<[tag |-> "LoginEvent", payload |-> [uin |-> 100]],
                                [tag |-> "LoginEvent", payload |-> [uin |-> 200]]>>
    /\ subs["r1"].st = "live"
    /\ subs["r1"].got = <<[tag |-> "LoginEvent", payload |-> [uin |-> 200]]>>

\* C10: handle on the multicast, unbounded-queue and latest-value adapters and on
\* DefaultHandler is never left suspended: every call has returned or aborted in
\* the step that made it, whatever is still undelivered.
C10_OnlyBoundedQueueSuspends ==
    kind \in {"broadcast", "unbounded", "watch", "DefaultHandler"} =>
      /\ \A p \in Producers : pc[p] \in {"idle", "panicked"} /\ cur[p] = <<>>
      /\ kind = "DefaultHandler" => printed = calls
      /\ kind \in SinkKinds =>
           Len(sent) = Len(completed) + Cardinality({p \in Producers : pc[p] = "panicked"})

C10_Witness ==
    /\ kind = "unbounded"
    /\ rx = "open"
    /\ Len(queue) = MaxCalls
    /\ Len(queue) > Cap
    /\ \A p \in Producers : pc[p] = "idle"


Contains(line, x) == \E i \in DOMAIN line.args : line.args[i] = x

\* C12: DefaultHandler prints a GroupMessage as text containing its group code
\* and elements, a PrivateMessage with sender uin and elements, a GroupRequest
\* with group code, requester uin and message, a FriendRequest with requester
\* uin and message, and every other variant as the generic dump of the whole
\* envelope.
C12_RenderedFields ==
    (kind = "DefaultHandler" /\ lastCall # <<>>) =>
      LET e == lastCall[1].msg
          line == lastLine[1]
      IN CASE e.tag = "GroupMessage" ->
                /\ Contains(line, ToString(e.payload.group_code))
                /\ Contains(line, e.payload.elements)
                /\ line.fmt # "{:?}"
           [] e.tag = "PrivateMessage" ->
                /\ Contains(line, ToString(e.payload.from_uin))
                /\ Contains(line, e.payload.elements)
                /\ line.fmt # "{:?}"
           [] e.tag = "GroupRequest" ->
                /\ Contains(line, ToString(e.payload.group_code))
                /\ Contains(line, ToString(e.payload.req_uin))
                /\ Contains(line, e.payload.message)
                /\ line.fmt # "{:?}"
           [] e.tag = "FriendRequest" ->
                /\ Contains(line, ToString(e.payload.req_uin))
                /\ Contains(line, e.payload.message)
                /\ line.fmt # "{:?}"
           [] OTHER -> line = [fmt |-> "{:?}", args |-> <<e>>]

C12_Witness ==
    /\ kind = "DefaultHandler"
    /\ lastCall # <<>>
    /\ lastCall[1].msg = [tag |-> "GroupMessage",
                          payload |-> [group_code |-> 123456, elements |-> "hi"]]
    /\ lastLine = <<[fmt |-> "MESSAGE (GROUP={}): {}", args |-> <<"123456", "hi">>]>>


\* C13: a sink adapter forwards the whole envelope unchanged and dispatches
\* nothing: no per-kind method is invoked, and every value a consumer obtains
\* from the sink is, tag and payload, a value that was passed to handle; a
\* TcpDisconnect stays a TcpDisconnect.
C13_SinksForwardUnchanged ==
    kind \in SinkKinds =>
      /\ invoked = EmptyBag /\ dispatched = EmptyBag /\ effects = EmptyBag /\ printed = 0
      /\ kind \in QueueKinds =>
           /\ SeqToBag(recvd \o queue) \sqsubseteq SeqToBag(sent)
           /\ \A i \in DOMAIN recvd :
                recvd[i].e.tag = "TcpConnect" =>
                  \E j \in DOMAIN sent : sent[j].e.tag = "TcpConnect"
      /\ kind = "broadcast" =>
           \A r \in LiveSubs : SeqToBag(subs[r].got) \sqsubseteq SeqToBag(Envelopes(sent))
      /\ kind = "watch" =>
           /\ completed # <<>> => \E j \in DOMAIN sent : cell = sent[j].e
           /\ \A r \in LiveSubs : SeqToBag(subs[r].got) \sqsubseteq SeqToBag(Envelopes(sent))

C13_Witness ==
    /\ kind = "mpsc"
    /\ Envelopes(sent) = <<[tag |-> "TcpDisconnect", payload |-> Unit],
                           [tag |-> "TcpConnect", payload |-> Unit]>>
    /\ recvd = sent
    /\ invoked = EmptyBag


Suspended(p) == pc[p] \in {"waiting", "granted"}

\* C14: a handle call suspended on the full bounded queue does not stay
\* suspended once the receiver is dropped: its pending send fails, the call
\* aborts, and its envelope is delivered nowhere.
C14_DropAbortsSuspendedSend ==
    /\ \A p \in Producers : (Suspended(p) /\ rx = "dropped") ~> (pc[p] = "panicked")
    /\ [][\A p \in Producers :
            (kind = "mpsc" /\ Suspended(p) /\ rx = "dropped") =>
              /\ pc'[p] \in {pc[p], "panicked"}
              /\ completed' = completed
              /\ queue' = queue
              /\ recvd' = recvd]_vars

C14_Witness ==
    /\ kind = "mpsc"
    /\ rx = "dropped"
    /\ queue = <<>>
    /\ \E p \in Producers : pc[p] = "waiting" /\ cur[p] # <<>>
    /\ \E p \in Producers : pc[p] = "panicked"


\* C16: while the receiver stays open and keeps receiving, every handle call
\* suspended on the full bounded queue eventually completes, also when several
\* producers are suspended at once: a freed slot goes to the longest-waiting
\* producer and no later caller can take it first.
C16_SuspendedSendsComplete ==
    /\ \A p \in Producers : Suspended(p) ~> (pc[p] = "idle" \/ rx # "open")
    /\ [](waiters # <<>> => permits = 0)
    /\ [][(Len(recvd') = Len(recvd) + 1 /\ waiters # <<>>) =>
            /\ pc[Head(waiters)] = "waiting"
            /\ pc'[Head(waiters)] = "granted"
            /\ waiters' = Tail(waiters)]_vars

C16_Witness ==
    /\ kind = "mpsc"
    /\ rx = "open"
    /\ Len(recvd) = 2
    /\ \A p \in Producers : pc[p] = "idle"
    /\ Len(completed) = Cap + 2
    /\ completed[Cap + 1].p # completed[Cap + 2].p


\* the per-kind call the dispatch owes envelope e
OwedCall(e) ==
    [method |-> IF e.tag = "TcpDisconnect" THEN "handle_tcp_connect_event"
                ELSE NamedAfter(e.tag),
     arg |-> e.payload]

\* the bag of per-kind calls obtained by dispatching the envelopes of bag b one at a time
OwedCalls(b) ==
    LET cs == {OwedCall(e) : e \in BagToSet(b)}
    IN [c \in cs |->
          BagCardinality([e \in {x \in BagToSet(b) : OwedCall(x) = c} |-> b[e]])]

\* C15: the default dispatch keeps no state across calls: with producers calling
\* it concurrently, calls in flight included, the per-kind invocations made are
\* exactly those that dispatching the same envelopes one at a time makes, each
\* call in flight holds its own envelope, and only the producers' calls run.
C15_ConcurrentDispatchIndependent ==
    kind = "default_dispatch" =>
      /\ invoked = OwedCalls(dispatched)
      /\ BagCardinality(dispatched) = calls
      /\ \A x \in BagToSet(effects) : x.method \in overrides /\ effects[x] = invoked[x]
      /\ \A p \in Producers :
           /\ pc[p] \in {"idle", "in_override"}
           /\ pc[p] = "in_override" =>
                /\ Len(cur[p]) = 1
                /\ dispatched[cur[p][1]] >= 1
                /\ OwedCall(cur[p][1]).method \in overrides

C15_Witness ==
    /\ kind = "default_dispatch"
    /\ overrides = {"handle_group_message"}
    /\ \A p \in Producers : pc[p] = "in_override"
    /\ cur["p1"] # cur["p2"]
    /\ BagCardinality(invoked) = 2


\* the entries of log that producer p made
ByProducer(log, p) == SelectSeq(log, LAMBDA x : x.p = p)

\* C17: with several producers calling handle on one queue sink, what the
\* consumer receives keeps every producer's own send order, and while the
\* receiver is alive every envelope whose handle call completed is in the queue
\* or at the consumer exactly once.
C17_PerProducerOrderExactlyOnce ==
    kind \in QueueKinds =>
      /\ \A p \in Producers : IsPrefix(ByProducer(recvd, p), ByProducer(sent, p))
      /\ rx # "dropped" =>
           /\ \A p \in Producers :
                IsPrefix(ByProducer(recvd \o queue, p), ByProducer(sent, p))
           /\ SeqToBag(recvd \o queue) = SeqToBag(completed)
           /\ Len(recvd) + Len(queue) = Len(completed)

C17_Witness ==
    /\ kind = "unbounded"
    /\ rx = "open"
    /\ Len(recvd) = 2
    /\ Len(queue) = 1
    /\ recvd[1].p = "p1" /\ recvd[2].p = "p2" /\ queue[1].p = "p1"
    /\ recvd[1].e # queue[1].e

\* C18: the bounded queue never buffers more envelopes than its capacity, under
\* any interleaving of producers and consumer: buffered envelopes, free permits
\* and permits granted to woken producers add up to the capacity; the unbounded
\* queue's handle enqueues at once whatever the queue's length.
C18_BoundedQueueWithinCapacity ==
    /\ [](kind = "mpsc" =>
            /\ Len(queue) <= Cap
            /\ permits >= 0
            /\ rx = "open" =>
                 Len(queue) + permits
                   + Cardinality({p \in Producers : pc[p] = "granted"}) = Cap)
    /\ [][\A p \in Producers :
            (kind = "unbounded" /\ CallStep(p) /\ rx = "open") =>
              /\ queue' = Append(queue, sent'[Len(sent')])
              /\ pc'[p] = "idle"]_vars

C18_Witness ==
    /\ kind = "mpsc"
    /\ rx = "open"
    /\ Len(queue) = Cap
    /\ permits = 0
    /\ \A p \in Producers : pc[p] = "waiting"

====
